---- MODULE Spec2Model ----
(***************************************************************************)
(* Model of mt174.py: the MT174 protocol client (MT174.read), and the      *)
(* Scheduler that drives it (Scheduler.run / Scheduler.execute) and fans   *)
(* the payload out to the processors.                                      *)
(*                                                                         *)
(* A value of Python type bytes returned by Serial.read() is a sequence of *)
(* at most one integer: << >> is the timed-out read b'' and <<b>> a byte.  *)
(* Time is counted in ticks of Scheduler.SLEEP_TIME.                       *)
(***************************************************************************)
EXTENDS Integers, Sequences, FiniteSets, TLC

VARIABLES
    \* ---- Scheduler.run / Scheduler.execute
    spc,        \* position of run: "poll", "exec", "read", "dispatch", "returned"
    now,        \* time.time()
    start,      \* run's local `start` (the baseline)
    ts,         \* execute's parameter `timestamp`
    idx,        \* index of the processor the for loop of execute is at
    data,       \* execute's local `data`
    runres,     \* what run did: "running", "ret0", "ret1"
    \* ---- MT174.read
    rpc,        \* position of read
    port,       \* the serial port: "closed" or "open"
    message,    \* read's local `message`
    datablock,  \* read's local `datablock`
    bcc,        \* read's local `bcc`
    curr,       \* read's local `curr_byte`
    \* ---- the transport (the meter's side of the line)
    scripted,   \* TRUE: the meter replays `script`; FALSE: it may send anything
    script,     \* the bytes the meter still has to send when scripted
    \* ---- history of the current call of read and of the current cycle
    ev,         \* the transport operations of the current call, in order
    idline,     \* what readline() returned in the current call
    rx,         \* what the read() calls of the current call returned, in
                \* order (those beyond MaxRx bytes are not recorded)
    rstat,      \* "none", "running", "done", "failed", "interrupted"
    rerr,       \* which exception ended the call ("none" when none did)
    rret,       \* the string the call returned
    calls,      \* the process() calls of the current cycle, in order
    cycle,      \* number of cycles started
    nreads,     \* number of calls of read in the current cycle
    prevTs,     \* timestamp of the previous cycle
    prevFailed, \* whether the previous cycle's read failed
    intr,       \* a KeyboardInterrupt has been raised
    \* ---- replay of a frame with one bit flipped
    phase,      \* 0: no replay; 1: the original frame; 2: the corrupted one
    frame,      \* the original frame, start marker through BCC
    flip,       \* <<position, bit>> of the flipped bit
    res1,       \* <<rstat, rret>> of the call on the original frame
    \* ---- history of run's waiting
    due0,       \* the interval had already elapsed when run was called
    slept0,     \* a poll sleep has preceded the first cycle
    \* ---- MT174.datablock_to_dict
    ppc,        \* position of datablock_to_dict: "off", "split", "loop", "done"
    pdata,      \* datablock_to_dict's parameter `data`
    plines,     \* the items of data.split() the for loop has still to visit
    data_dict   \* datablock_to_dict's local `data_dict`

schedVars == <<spc, now, start, ts, idx, data, runres>>
readLocals == <<message, datablock, bcc, curr>>
wireVars == <<scripted, script>>
readHist == <<ev, idline, rx, rstat, rerr, rret>>
cycleHist == <<calls, cycle, nreads, prevTs, prevFailed, intr>>
flipVars == <<phase, frame, flip, res1>>
waitVars == <<due0, slept0>>
parseVars == <<ppc, pdata, plines, data_dict>>
vars == <<schedVars, rpc, port, readLocals, wireVars, readHist, cycleHist, flipVars,
          waitVars, parseVars>>

----------------------------------------------------------------------------
(* Program constants *)

ACK == 6
STX == 2
ETX == 3
BANG == 33
SLASH == 47
MinIdLen == 7
BYTESIZE == 7

(* Bounds of the model *)

\* Scheduler.interval, in ticks of SLEEP_TIME
Interval == 2
\* the clock stops advancing here
MaxTime == 5
\* number of processors handed to the Scheduler
NProc == 2
\* longest line readline() returns
MaxIdLen == 8
\* most bytes the meter sends in one call when it is not scripted
MaxRx == 6
\* longest body and tail of a replayed frame
MaxBody == 2
MaxTail == 1

----------------------------------------------------------------------------
(* Bytes and sequences *)

\* the bytes the meter sends: the two markers, '!', and '#'
Byte == {STX, ETX, BANG, 35}
\* the bytes of an identification line: '/' and 'X'
IdByte == {SLASH, 88}

SeqsUpTo(S, n) == UNION {[1..k -> S] : k \in 0..n}

RECURSIVE Xor(_, _)
\* Python's a ^ b on non-negative integers
Xor(a, b) ==
    IF a = 0 /\ b = 0 THEN 0
    ELSE (((a % 2) + (b % 2)) % 2) + (2 * Xor(a \div 2, b \div 2))

RECURSIVE Pow2(_)
Pow2(k) == IF k = 0 THEN 1 ELSE 2 * Pow2(k - 1)

\* Python's ord() of a bytes object of length one
ord(c) == c[1]

\* b'/' in message
Contains(s, b) == \E i \in 1..Len(s) : s[i] = b

\* message.index(b'/'), counted from 1
Index(s, b) == CHOOSE i \in 1..Len(s) : s[i] = b /\ \A j \in 1..(i - 1) : s[j] # b

\* bytes.decode('us-ascii') succeeds
IsAscii(s) == \A i \in 1..Len(s) : s[i] < 128

----------------------------------------------------------------------------
(* The transport *)

\* what Serial.read() may return now
RxSet ==
    IF scripted
    THEN {IF script = <<>> THEN <<>> ELSE <<Head(script)>>}
    ELSE IF Len(rx) < MaxRx THEN {<<b>> : b \in Byte} \cup {<<>>} ELSE {<<>>}

\* one call of Serial.read() returning r
SerialRead(r) ==
    /\ r \in RxSet
    /\ script' = IF scripted /\ script # <<>> THEN Tail(script) ELSE script
    /\ rx' = Append(rx, r)
    /\ ev' = Append(ev, "read")

\* a well-formed identification line, sent when the meter is scripted
ScriptedId == <<SLASH, 88, 88, 88, 88, 88, 88>>

\* what Serial.readline() may return now
IdSet == IF scripted THEN {ScriptedId} ELSE SeqsUpTo(IdByte, MaxIdLen)

\* how long a call may have taken, the clock being capped
Durations == {d \in 0..1 : now + d <= MaxTime}

----------------------------------------------------------------------------
(* MT174.read: how a call ends.  The finally clause closes the port on     *)
(* every exit; control then is back in Scheduler.execute.                  *)

\* a finally clause that leaves the port as it is
FinallyLeak(p) == p

\* finally: if mt174.isOpen(): mt174.close()
Finally(p) == "closed"

\* an execute that goes on to the processors after read has raised
AfterReadErrorDispatch == "dispatch"

\* an execute that calls read again after it has raised
AfterReadErrorRetry == "exec"

\* an execute from which the exception of read escapes, so that run returns
AfterReadErrorEscape == "returned"

\* execute after read has raised an Exception: logged, the cycle is over
AfterReadError == "poll"

\* an execute that skips the processors when the payload is empty
AfterReadReturnSkipEmpty(payload) ==
    IF NProc = 0 \/ payload = <<>> THEN "poll" ELSE "dispatch"

\* execute after read has returned: the for loop over the processors
AfterReadReturn(payload) == IF NProc = 0 THEN "poll" ELSE "dispatch"

\* an Exception `kind` leaves read and reaches execute's except clause
Propagate(kind) ==
    /\ rpc' = "idle"
    /\ rstat' = "failed"
    /\ rerr' = kind
    /\ rret' = <<>>
    /\ spc' = AfterReadError
    /\ \E d \in Durations : now' = now + d
    /\ UNCHANGED <<start, ts, idx, data, runres>>

\* read raises the Exception `kind` inside its try block
Raise(kind) ==
    /\ port' = Finally(port)
    /\ Propagate(kind)

\* read returns the string `payload`
Return(payload) ==
    /\ port' = Finally(port)
    /\ rpc' = "idle"
    /\ rstat' = "done"
    /\ rerr' = "none"
    /\ rret' = payload
    /\ spc' = AfterReadReturn(payload)
    /\ data' = payload
    /\ idx' = 1
    /\ \E d \in Durations : now' = now + d
    /\ UNCHANGED <<start, ts, runres>>

\* read goes on to position `pc`
Goto(pc) ==
    /\ rpc' = pc
    /\ UNCHANGED <<port, rstat, rerr, rret, schedVars>>

----------------------------------------------------------------------------
(* MT174.read, step by step *)

\* serial.Serial(port=..., bytesize=7, parity='E', stopbits=1, timeout=1.5)
RdOpen ==
    /\ spc = "read" /\ rpc = "open"
    /\ \/ /\ port' = "open"
          /\ rpc' = "w_hello"
          /\ ev' = Append(ev, "open")
          /\ UNCHANGED <<rstat, rerr, rret, schedVars, idline, rx>>
       \/ /\ ~scripted
          /\ Propagate("open_failed")
          /\ UNCHANGED <<port, ev, idline, rx>>
    /\ UNCHANGED <<readLocals, wireVars, cycleHist,
                   flipVars, waitVars, parseVars>>

\* message = b'/?!\r\n'; mt174.write(message)
RdWriteHello ==
    /\ spc = "read" /\ rpc = "w_hello"
    /\ message' = <<SLASH, 63, BANG, 13, 10>>
    /\ ev' = Append(ev, "w_hello")
    /\ Goto("delay1")
    /\ UNCHANGED <<datablock, bcc, curr, wireVars, idline, rx, cycleHist,
                   flipVars, waitVars, parseVars>>

\* a pause that is left out
DelaySkipped(trace) == trace

\* MT174.__delay(): time.sleep(MT174.DELAY), recorded among the operations
Delay(trace) == Append(trace, "delay")

\* MT174.__delay() after the request
RdDelay1 ==
    /\ spc = "read" /\ rpc = "delay1"
    /\ ev' = Delay(ev)
    /\ Goto("r_id")
    /\ UNCHANGED <<readLocals, wireVars, idline, rx, cycleHist,
                   flipVars, waitVars, parseVars>>

\* a stripping that cuts at the last '/' instead of the first
StripToLastSlash(m) ==
    IF m[1] # SLASH /\ Contains(m, SLASH)
    THEN SubSeq(m, CHOOSE i \in 1..Len(m) :
                      m[i] = SLASH /\ \A j \in (i + 1)..Len(m) : m[j] # SLASH,
                Len(m))
    ELSE m

\* the message left once the garbage before the first '/' is removed
StripGarbage(m) ==
    IF m[1] # SLASH /\ Contains(m, SLASH)
    THEN SubSeq(m, Index(m, SLASH), Len(m))
    ELSE m

\* message = mt174.readline() and the checks of the identification
RdIdent ==
    /\ spc = "read" /\ rpc = "r_id"
    /\ \E line \in IdSet :
        /\ idline' = line
        /\ ev' = Append(ev, "readline")
        /\ IF Len(line) = 0
           THEN /\ message' = line
                /\ Raise("empty_id")
           ELSE LET m == StripGarbage(line) IN
                /\ message' = m
                /\ IF m[1] # SLASH THEN Raise("no_id")
                   ELSE IF Len(m) < MinIdLen THEN Raise("id_short")
                   ELSE Goto("w_ack")
    /\ UNCHANGED <<datablock, bcc, curr, wireVars, rx, cycleHist,
                   flipVars, waitVars, parseVars>>

\* message = MT174.ACK + b'000\r\n'; mt174.write(message)
RdWriteAck ==
    /\ spc = "read" /\ rpc = "w_ack"
    /\ message' = <<ACK, 48, 48, 48, 13, 10>>
    /\ ev' = Append(ev, "w_ack")
    /\ idline' = <<>>
    /\ Goto("delay2")
    /\ UNCHANGED <<datablock, bcc, curr, wireVars, rx, cycleHist,
                   flipVars, waitVars, parseVars>>

\* MT174.__delay() after the acknowledgement; datablock = b""
RdDelay2 ==
    /\ spc = "read" /\ rpc = "delay2"
    /\ ev' = Delay(ev)
    /\ datablock' = <<>>
    /\ Goto("r_stx")
    /\ UNCHANGED <<message, bcc, curr, wireVars, idline, rx, cycleHist,
                   flipVars, waitVars, parseVars>>

\* if mt174.read() == MT174.STX: ... else: warning; return datablock.decode()
RdStx ==
    /\ spc = "read" /\ rpc = "r_stx"
    /\ \E r \in RxSet :
        /\ SerialRead(r)
        /\ IF r = <<STX>> THEN Goto("r_first") ELSE Return(datablock)
    /\ UNCHANGED <<readLocals, scripted, idline, cycleHist,
                   flipVars, waitVars, parseVars>>

\* a body that is accumulated back to front
BodyAppendReversed(block, c) == c \o block

\* datablock = datablock + curr_byte
BodyAppend(block, c) == block \o c

\* curr_byte = mt174.read(); bcc = 0
RdFirst ==
    /\ spc = "read" /\ rpc = "r_first"
    /\ \E r \in RxSet :
        /\ SerialRead(r)
        /\ curr' = r
        /\ IF Len(r) = 0
           THEN Raise("empty_data") /\ bcc' = bcc
           ELSE Goto("body") /\ bcc' = 0
    /\ UNCHANGED <<message, datablock, scripted, idline, cycleHist,
                   flipVars, waitVars, parseVars>>

\* the meter has sent MaxRx bytes in this call and may send more
Beyond == ~scripted /\ Len(rx) >= MaxRx

\* one more turn of a loop that waits for the byte `stop`, on a byte sent
\* beyond MaxRx that is not `stop`: the loop goes on as before; what it has
\* read and accumulated is no longer recorded
LoopBeyond(stop, pc) ==
    /\ Beyond
    /\ \E b \in Byte \ {stop} : curr' = <<b>>
    /\ Goto(pc)
    /\ UNCHANGED <<bcc, datablock, script, rx, ev>>

\* while curr_byte != b'!': the body of the block
RdBody ==
    /\ spc = "read" /\ rpc = "body"
    /\ IF curr # <<BANG>>
       THEN \/ \E r \in RxSet :
               /\ SerialRead(r)
               /\ bcc' = Xor(bcc, ord(curr))
               /\ datablock' = BodyAppend(datablock, curr)
               /\ curr' = r
               /\ IF Len(r) = 0 THEN Raise("empty_data") ELSE Goto("body")
            \/ LoopBeyond(BANG, "body")
       ELSE /\ Goto("tail")
            /\ UNCHANGED <<bcc, datablock, curr, script, rx, ev>>
    /\ UNCHANGED <<message, scripted, idline, cycleHist,
                   flipVars, waitVars, parseVars>>

\* a tail loop that leaves the checksum alone
TailAccSkip(acc, c) == acc

\* bcc = bcc ^ ord(curr_byte) in the tail loop: '!' and what follows it are
\* part of the block check
TailAcc(acc, c) == Xor(acc, ord(c))

\* while curr_byte != MT174.ETX: from '!' to the end marker
RdTail ==
    /\ spc = "read" /\ rpc = "tail"
    /\ IF curr # <<ETX>>
       THEN \/ \E r \in RxSet :
               /\ SerialRead(r)
               /\ bcc' = TailAcc(bcc, curr)
               /\ curr' = r
               /\ IF Len(r) = 0 THEN Raise("empty_data") ELSE Goto("tail")
            \/ LoopBeyond(ETX, "tail")
       ELSE /\ Goto("bcc")
            /\ UNCHANGED <<bcc, curr, script, rx, ev>>
    /\ UNCHANGED <<message, datablock, scripted, idline, cycleHist,
                   flipVars, waitVars, parseVars>>

\* a block check that leaves the end marker out of the checksum
BccWithoutEtx(acc, c) == Xor(acc, ETX) # ord(c)

\* if bcc != ord(curr_byte): whether the block check rejects the block
BccMismatch(acc, c) == acc # ord(c)

\* bcc = bcc ^ ord(curr_byte); curr_byte = mt174.read(); the comparison
RdBcc ==
    /\ spc = "read" /\ rpc = "bcc"
    /\ \E r \in RxSet :
        /\ SerialRead(r)
        /\ bcc' = Xor(bcc, ord(curr))
        /\ curr' = r
        /\ IF Len(r) = 0
           THEN Raise("type_error") /\ datablock' = datablock
           ELSE IF BccMismatch(bcc', r)
           THEN Raise("bcc_mismatch") /\ datablock' = <<>>
           ELSE IF ~IsAscii(datablock)
           THEN Raise("decode_error") /\ datablock' = datablock
           ELSE Return(datablock) /\ datablock' = datablock
    /\ UNCHANGED <<message, scripted, idline, cycleHist,
                   flipVars, waitVars, parseVars>>

Read ==
    \/ RdOpen \/ RdWriteHello \/ RdDelay1 \/ RdIdent \/ RdWriteAck \/ RdDelay2
    \/ RdStx \/ RdFirst \/ RdBody \/ RdTail \/ RdBcc

----------------------------------------------------------------------------
(* Scheduler.run and Scheduler.execute *)

\* the processors, in the order of Scheduler.processors
Procs == 1..NProc

\* what a call of Processor.process may do: return, raise an Exception, or
\* be hit by a KeyboardInterrupt
ProcOutcomes == {"ok", "raise", "kbd"}

\* except clauses that log a KeyboardInterrupt like any other exception
ProcHandlingSwallow(out) ==
    IF out = "ok" THEN "next" ELSE "logged"

\* the except clauses around processor.process in execute
ProcHandling(out) ==
    IF out = "kbd" THEN "reraise"
    ELSE IF out = "raise" THEN "logged"
    ELSE "next"

\* a for loop that a failing processor ends
NextIdxStopOnError(i, h) == IF h = "logged" THEN NProc + 1 ELSE i + 1

\* the processor the for loop of execute goes on with
NextIdx(i, h) == i + 1

\* run's except KeyboardInterrupt: return 0
RunOnKbd == "ret0"

\* a poll loop that ends one tick early
StillWaitingOffByOne == (now - start) < Interval - 1

\* the condition of run's inner loop: (time.time() - start) < self.interval
StillWaiting == (now - start) < Interval

\* while (time.time() - start) < self.interval: time.sleep(SLEEP_TIME)
PollSleep ==
    /\ spc = "poll"
    /\ StillWaiting
    /\ \E d \in 1..2 : now + d <= MaxTime /\ now' = now + d
    /\ slept0' = (slept0 \/ cycle = 0)
    /\ UNCHANGED <<spc, start, ts, idx, data, runres, rpc, port, readLocals,
                   wireVars, readHist, cycleHist, flipVars, due0, parseVars>>

\* the interval has elapsed: start = time.time(); self.execute(start)
PollFire ==
    /\ spc = "poll"
    /\ ~StillWaiting
    /\ \E d \in Durations : now' = now + d
    /\ start' = now'
    /\ ts' = start'
    /\ spc' = "exec"
    /\ cycle' = cycle + 1
    /\ calls' = <<>>
    /\ data' = <<>>
    /\ nreads' = 0
    /\ prevTs' = ts
    /\ prevFailed' = (rstat = "failed")
    /\ UNCHANGED <<idx, runres, rpc, port, readLocals, wireVars, readHist,
                   intr, flipVars, waitVars, parseVars>>

\* a call of self.mt174.read() begins
CallRead ==
    /\ spc' = "read"
    /\ rpc' = "open"
    /\ nreads' = nreads + 1
    /\ rstat' = "running" /\ rerr' = "none" /\ rret' = <<>>
    /\ ev' = <<>> /\ idline' = <<>> /\ rx' = <<>>
    /\ message' = <<>> /\ datablock' = <<>> /\ bcc' = 0 /\ curr' = <<>>

\* execute: data = self.mt174.read()
ExecCallRead ==
    /\ spc = "exec"
    /\ CallRead
    /\ UNCHANGED <<now, start, ts, idx, data, runres, port, wireVars, calls,
                   cycle, prevTs, prevFailed, intr,
                   flipVars, waitVars, parseVars>>

\* execute: one turn of `for processor in self.processors`
Dispatch ==
    /\ spc = "dispatch"
    /\ \E out \in ProcOutcomes :
        LET h == ProcHandling(out) IN
        /\ calls' = Append(calls, [proc |-> idx, ts |-> ts, data |-> data,
                                   out |-> out, handled |-> h])
        /\ IF h = "reraise"
           THEN /\ spc' = "returned"
                /\ runres' = RunOnKbd
                /\ intr' = TRUE
                /\ UNCHANGED <<idx, now>>
           ELSE /\ idx' = NextIdx(idx, h)
                /\ spc' = IF idx' > NProc THEN "poll" ELSE "dispatch"
                /\ \E d \in Durations : now' = now + d
                /\ UNCHANGED <<runres, intr>>
    /\ UNCHANGED <<start, ts, data, rpc, port, readLocals, wireVars, readHist,
                   cycle, nreads, prevTs, prevFailed,
                   flipVars, waitVars, parseVars>>

\* a run that takes a KeyboardInterrupt only while it polls
InterruptibleCooperative == {"poll"}

\* where run can be when a KeyboardInterrupt is raised: anywhere, as nothing in
\* run, execute or read defers the signal
Interruptible == {"poll", "exec", "read", "dispatch"}

\* a KeyboardInterrupt raised while run is polling, in execute outside a
\* processor, or anywhere in read: read's finally runs if its try was entered,
\* execute re-raises, run returns
KbdInterrupt ==
    /\ spc \in Interruptible
    /\ port' = IF spc = "read" /\ rpc # "open" THEN Finally(port) ELSE port
    /\ rstat' = IF spc = "read" THEN "interrupted" ELSE rstat
    /\ rpc' = "idle"
    /\ spc' = "returned"
    /\ runres' = RunOnKbd
    /\ intr' = TRUE
    /\ UNCHANGED <<now, start, ts, idx, data, readLocals, wireVars, ev, idline,
                   rx, rerr, rret, calls, cycle, nreads, prevTs, prevFailed,
                   flipVars, waitVars, parseVars>>

----------------------------------------------------------------------------
(* The specification of the scheduler with its reader *)

\* a run whose baseline starts at the time run is called
InitialBaselineNow == now

\* run: start = 0
InitialBaseline == 0

Init ==
    /\ spc = "poll" /\ now \in 0..Interval /\ start = InitialBaseline /\ ts = 0
    /\ idx = 1 /\ data = <<>> /\ runres = "running"
    /\ rpc = "idle" /\ port = "closed"
    /\ message = <<>> /\ datablock = <<>> /\ bcc = 0 /\ curr = <<>>
    /\ scripted = FALSE /\ script = <<>>
    /\ ev = <<>> /\ idline = <<>> /\ rx = <<>>
    /\ rstat = "none" /\ rerr = "none" /\ rret = <<>>
    /\ calls = <<>> /\ cycle = 0 /\ nreads = 0 /\ prevTs = 0
    /\ prevFailed = FALSE /\ intr = FALSE
    /\ phase = 0 /\ frame = <<>> /\ flip = <<0, 0>> /\ res1 = <<>>
    /\ due0 = (now >= Interval) /\ slept0 = FALSE
    /\ ppc = "off" /\ pdata = <<>> /\ plines = <<>> /\ data_dict = <<>>

Next ==
    \/ PollSleep \/ PollFire \/ ExecCallRead \/ Read \/ Dispatch \/ KbdInterrupt

Spec == Init /\ [][Next]_vars

\* the steps the program takes by itself: every call it makes returns
Progress == PollSleep \/ PollFire \/ ExecCallRead \/ Read \/ Dispatch

\* the program keeps running as long as it can take a step
LiveSpec == Spec /\ WF_vars(Progress)

----------------------------------------------------------------------------
(* Replay: read is called on a frame, and, if it accepts the frame, called *)
(* again on the same frame with one bit flipped in one byte after the      *)
(* start marker up to and including the end marker.                        *)

\* the values of a byte of the line (bytesize=7)
Bytes7 == 0..(Pow2(BYTESIZE) - 1)

\* start marker, body without '!', '!', tail without end marker, end marker,
\* and any byte in the place of the check character
Frames ==
    {<<STX>> \o b \o <<BANG>> \o t \o <<ETX, c>> :
        b \in SeqsUpTo(Byte \ {BANG}, MaxBody),
        t \in SeqsUpTo(Byte \ {ETX}, MaxTail),
        c \in Bytes7}

\* the byte b with bit k flipped
FlipBit(b, k) == Xor(b, Pow2(k))

\* the frame f with bit k of its byte at position p flipped
Corrupt(f, p, k) == [f EXCEPT ![p] = FlipBit(@, k)]

InitFlip ==
    /\ spc = "read" /\ now = MaxTime /\ start = MaxTime /\ ts = MaxTime
    /\ idx = 1 /\ data = <<>> /\ runres = "running"
    /\ rpc = "open" /\ port = "closed"
    /\ message = <<>> /\ datablock = <<>> /\ bcc = 0 /\ curr = <<>>
    /\ scripted = TRUE /\ frame \in Frames /\ script = frame
    /\ ev = <<>> /\ idline = <<>> /\ rx = <<>>
    /\ rstat = "running" /\ rerr = "none" /\ rret = <<>>
    /\ calls = <<>> /\ cycle = 1 /\ nreads = 1 /\ prevTs = 0
    /\ prevFailed = FALSE /\ intr = FALSE
    /\ phase = 1 /\ flip = <<0, 0>> /\ res1 = <<>>
    /\ due0 = TRUE /\ slept0 = FALSE
    /\ ppc = "off" /\ pdata = <<>> /\ plines = <<>> /\ data_dict = <<>>

\* read has accepted the whole frame: call it again on a corrupted copy
Replay ==
    /\ phase = 1 /\ rstat = "done" /\ script = <<>> /\ Len(rx) = Len(frame)
    /\ \E p \in 2..(Len(frame) - 1), k \in 0..(BYTESIZE - 1) :
        /\ flip' = <<p, k>>
        /\ script' = Corrupt(frame, p, k)
    /\ phase' = 2
    /\ res1' = <<rstat, rret>>
    /\ CallRead
    /\ data' = <<>>
    /\ UNCHANGED <<now, start, ts, idx, runres, port, scripted, calls, cycle,
                   prevTs, prevFailed, intr, frame, waitVars, parseVars>>

NextFlip == Read \/ Replay

SpecFlip == InitFlip /\ [][NextFlip]_vars

----------------------------------------------------------------------------
(* Properties *)

\* a call of read has ended: it returned, raised, or was interrupted
CallEnded == rstat \in {"done", "failed", "interrupted"}

\* C1: whenever a call of read that opened the port has ended, in whichever
\* way (a payload, an empty payload, an exception, a KeyboardInterrupt in the
\* middle of the handshake), the port is closed; so the port is never open
\* while run polls, while a processor is called, or after run has returned.
C1_PortClosedOnEveryExit ==
    /\ CallEnded => port = "closed"
    /\ spc \in {"poll", "exec", "dispatch", "returned"} => port = "closed"
    /\ port = "open" => spc = "read" /\ rstat = "running"

\* a call interrupted after the acknowledgement was written has closed the port
C1_Witness ==
    /\ rstat = "interrupted"
    /\ \E i \in 1..Len(ev) : ev[i] = "open"
    /\ \E i \in 1..Len(ev) : ev[i] = "w_ack"
    /\ port = "closed"

----------------------------------------------------------------------------
(* Frames, as the block check sees them *)

RECURSIVE XorSeq(_)
\* the exclusive-or of all the integers of a sequence
XorSeq(s) == IF s = <<>> THEN 0 ELSE Xor(Head(s), XorSeq(Tail(s)))

\* the bytes of a sequence of non-empty read results
Bytes(r) == [i \in 1..Len(r) |-> r[i][1]]

\* position of the first '!' after the start marker, 0 when there is none
BangPos(r) ==
    IF \E i \in 2..Len(r) : r[i] = <<BANG>>
    THEN CHOOSE i \in 2..Len(r) :
            r[i] = <<BANG>> /\ \A k \in 2..(i - 1) : r[k] # <<BANG>>
    ELSE 0

\* position of the first end marker after position i, 0 when there is none
EtxPos(r, i) ==
    IF \E j \in (i + 1)..Len(r) : r[j] = <<ETX>>
    THEN CHOOSE j \in (i + 1)..Len(r) :
            r[j] = <<ETX>> /\ \A k \in (i + 1)..(j - 1) : r[k] # <<ETX>>
    ELSE 0

\* r is: start marker, body, '!', tail, end marker, and one more byte
FrameShaped(r) ==
    /\ Len(r) >= 4
    /\ \A k \in 1..Len(r) : Len(r[k]) = 1
    /\ r[1] = <<STX>>
    /\ BangPos(r) # 0
    /\ EtxPos(r, BangPos(r)) = Len(r) - 1

\* the exclusive-or of every byte after the start marker through the end marker
FrameXor(r) == XorSeq(Bytes(SubSeq(r, 2, Len(r) - 1)))

\* the byte after the end marker
FrameB(r) == r[Len(r)][1]

\* C2: when the meter has delivered a start marker, a body, a '!', a tail, an
\* end marker and one more byte B, read returns a payload if and only if B is
\* the exclusive-or of every byte after the start marker through the end
\* marker; when B differs read raises, returns nothing, and no processor is
\* handed any part of the block.  Conversely read accepts or rejects a block
\* on its check character only when the bytes read have that shape.
C2_BccAcceptsIffXor ==
    /\ rstat \in {"done", "failed"} /\ FrameShaped(rx) =>
        /\ rstat = "done" <=> FrameB(rx) = FrameXor(rx)
        /\ FrameB(rx) # FrameXor(rx) =>
              rerr = "bcc_mismatch" /\ rret = <<>> /\ data = <<>> /\ calls = <<>>
    /\ rstat = "done" /\ rx # <<>> /\ rx[1] = <<STX>> => FrameShaped(rx)
    /\ rerr = "bcc_mismatch" => FrameShaped(rx)

\* a block with a body and a tail whose check character matches was returned
C2_Witness ==
    /\ rstat = "done" /\ FrameShaped(rx)
    /\ FrameB(rx) = FrameXor(rx)
    /\ rret # <<>>
    /\ EtxPos(rx, BangPos(rx)) > BangPos(rx) + 1

----------------------------------------------------------------------------
(* Single-bit corruption of an accepted frame *)

\* position of the '!' that ends the body of the frame f
FBang(f) == CHOOSE i \in 2..Len(f) : f[i] = BANG /\ \A j \in 2..(i - 1) : f[j] # BANG

\* position of the end marker of the frame f
FEtx(f) == Len(f) - 1

\* the flip makes the block end earlier: a tail byte becomes the end marker,
\* or a body byte becomes '!' while an end marker follows it in the body
EndsEarlier(f, p, k) ==
    \/ /\ FBang(f) < p /\ p < FEtx(f)
       /\ FlipBit(f[p], k) = ETX
    \/ /\ p < FBang(f)
       /\ FlipBit(f[p], k) = BANG
       /\ \E q \in (p + 1)..(FBang(f) - 1) : f[q] = ETX

\* the call on the corrupted copy has ended
ReplayEnded == phase = 2 /\ rstat \in {"done", "failed"}

\* C3 as stated: whichever bit of whichever byte after the start marker
\* through the end marker of an accepted frame is flipped, read fails on the
\* corrupted frame and returns no payload.
C3_AnyFlipRejected ==
    ReplayEnded => rstat = "failed" /\ rret = <<>>

\* C3, amended: read fails on the corrupted frame and returns no payload
\* unless the flip makes the block end earlier (a tail byte turned into the
\* end marker, or a body byte turned into '!' before an end marker that lies
\* in the body); this covers the flips that turn a body byte into '!' with no
\* end marker after it in the body, and those that turn the '!' or the end
\* marker into another byte.
C3_FlipRejectedUnlessEndsEarlier ==
    ReplayEnded /\ ~EndsEarlier(frame, flip[1], flip[2]) =>
        rstat = "failed" /\ rret = <<>>

\* a body byte of an accepted frame was turned into '!', and read failed
C3_Witness ==
    /\ ReplayEnded /\ rstat = "failed"
    /\ res1[1] = "done"
    /\ flip[1] < FBang(frame)
    /\ FlipBit(frame[flip[1]], flip[2]) = BANG
    /\ ~EndsEarlier(frame, flip[1], flip[2])

----------------------------------------------------------------------------
(* The identification message *)

\* the last element of a non-empty sequence
Last(s) == s[Len(s)]

\* the event e is among the transport operations of the current call
Did(e) == \E i \in 1..Len(ev) : ev[i] = e

\* the line holds a '/'
HasSlash(l) == \E i \in 1..Len(l) : l[i] = SLASH

\* the line from its first '/' on
FromSlash(l) ==
    LET first == CHOOSE i \in 1..Len(l) : l[i] = SLASH /\ \A j \in 1..Len(l) : l[j] = SLASH => i <= j
    IN  [i \in 1..(Len(l) - first + 1) |-> l[first + i - 1]]

\* readline() was the last transport operation of the call
JustIdentified == ev # <<>> /\ Last(ev) = "readline"

\* C4: for a non-empty identification line, the bytes before the first '/'
\* and nothing else are discarded; read goes on to the acknowledgement exactly
\* when the line holds a '/' and the line from that '/' on is at least 7 bytes
\* long; otherwise read fails as a malformed identification.
C4_IdentificationStripped ==
    JustIdentified /\ idline # <<>> /\ rstat # "interrupted" =>
        LET wellFormed == HasSlash(idline) /\ Len(FromSlash(idline)) >= MinIdLen
        IN  /\ (rstat = "running" /\ rpc = "w_ack") <=> wellFormed
            /\ HasSlash(idline) => message = FromSlash(idline)
            /\ ~wellFormed => rstat = "failed" /\ rerr \in {"no_id", "id_short"}
            /\ ~HasSlash(idline) => rerr = "no_id"

\* a line with one garbage byte before a 7-byte identification was accepted
C4_Witness ==
    /\ JustIdentified /\ rpc = "w_ack" /\ rstat = "running"
    /\ Len(idline) = MinIdLen + 1 /\ idline[1] # SLASH
    /\ Len(message) = MinIdLen /\ message[1] = SLASH

\* C5: when readline() returns no byte, read raises and returns nothing, the
\* acknowledgement is not written and nothing more is read in that call;
\* execute catches the exception and calls no processor, and run goes on
\* polling for the next interval (it stops only on a KeyboardInterrupt).
C5_EmptyIdentification ==
    /\ JustIdentified /\ idline = <<>> => rstat = "failed" /\ rerr = "empty_id"
    /\ rerr = "empty_id" =>
        /\ rstat = "failed" /\ rret = <<>>
        /\ ev = <<"open", "w_hello", "delay", "readline">>
        /\ rx = <<>>
        /\ calls = <<>> /\ data = <<>>
        /\ spc \in {"poll", "exec", "returned"}
        /\ spc = "returned" <=> intr
        /\ ~intr => runres = "running"

\* after an empty identification the next cycle of run has begun
C5_Witness ==
    /\ rerr = "empty_id" /\ spc = "exec" /\ cycle = 2
    /\ ts >= prevTs + Interval
    /\ runres = "running"

\* the processors were called in order, each with the cycle's timestamp and
\* with what read returned
CallsInOrder ==
    \A i \in 1..Len(calls) :
        calls[i].proc = i /\ calls[i].ts = start /\ calls[i].data = rret

\* C6: when, after the acknowledgement, the first read() does not return the
\* start marker (another byte, or nothing), read reads nothing more and
\* returns the empty string, and execute calls every processor with the
\* empty string, in order, as it does for any payload.
C6_NoStartMarker ==
    rx # <<>> /\ rx[1] # <<STX>> =>
        /\ Len(rx) = 1
        /\ Last(ev) = "read" /\ Did("w_ack")
        /\ rstat = "done" /\ rerr = "none" /\ rret = <<>>
        /\ calls # <<>> \/ spc = "dispatch" => data = <<>> /\ CallsInOrder
        /\ spc = "dispatch" => idx = Len(calls) + 1 /\ idx <= NProc
        /\ spc = "poll" => Len(calls) = NProc

\* every processor was called with the empty string after a timed-out read
C6_Witness ==
    /\ rx = << <<>> >> /\ rstat = "done"
    /\ spc = "poll" /\ Len(calls) = NProc /\ NProc > 0
    /\ \A i \in 1..Len(calls) : calls[i].data = <<>>

----------------------------------------------------------------------------
(* Scheduler.execute and Scheduler.run *)

\* C7: in a cycle in which read has returned, every processor is called
\* exactly once, in the order of the list, each with the cycle's timestamp and
\* the payload read returned, whichever of them raise an Exception: a
\* processor that raises neither stops, reorders nor changes the calls of
\* the processors after it.
C7_EveryProcessorInOrder ==
    /\ Len(calls) <= NProc
    /\ calls # <<>> => rstat = "done" /\ ts = start /\ data = rret
    /\ CallsInOrder
    /\ spc = "dispatch" => rstat = "done" /\ idx = Len(calls) + 1 /\ idx <= NProc
    /\ spc = "poll" /\ rstat = "done" => Len(calls) = NProc
    /\ \A i \in 1..Len(calls) :
          calls[i].out = "raise" /\ i < NProc /\ spc \in {"poll", "exec"}
              => Len(calls) > i

\* the first processor raised and the second was called with the same
\* timestamp and the same non-empty payload
C7_Witness ==
    /\ spc = "poll" /\ Len(calls) = NProc /\ NProc >= 2
    /\ calls[1].out = "raise" /\ calls[2].out = "ok"
    /\ calls[2].ts = calls[1].ts /\ calls[2].data = calls[1].data
    /\ calls[1].data # <<>>

\* C8: in a cycle in which read raises (no response, malformed
\* identification, incomplete frame, checksum mismatch), no processor is
\* called, read is called exactly once, and the next call of read belongs to
\* a cycle whose timestamp is at least one interval later.
C8_FailedCycleSkippedNoRetry ==
    /\ rstat = "failed" => calls = <<>>
    /\ nreads <= 1
    /\ spc \in {"read", "dispatch"} => nreads = 1
    /\ rstat = "failed" /\ spc = "poll" => nreads = 1
    /\ prevFailed => cycle >= 2 /\ ts >= prevTs + Interval
    /\ rstat = "failed" /\ spc = "poll" => start = ts /\ now >= ts

\* the cycle after one whose read failed calls read once, at least one
\* interval later
C8_Witness ==
    /\ prevFailed /\ spc = "read" /\ nreads = 1
    /\ ts >= prevTs + Interval

\* a cycle is over and its read or one of its processors had raised
CycleFailed ==
    /\ spc = "poll"
    /\ rstat = "failed" \/ \E i \in 1..Len(calls) : calls[i].out = "raise"

\* the clock of the model can still reach the next interval
CanReachNextInterval == start + Interval <= MaxTime

\* no more cycles than this fit before the clock bound of the model
MaxCycles == (MaxTime \div Interval) + 1

\* C9: neither an exception of read nor an exception of a processor ends
\* run: run has stopped only if a KeyboardInterrupt was raised, and after a
\* cycle with such failures, unless a KeyboardInterrupt is raised, another
\* cycle is started once the clock has advanced by the interval.
C9_FailuresNeverStopRun ==
    /\ [](spc = "returned" \/ runres # "running" => intr)
    /\ [](cycle <= MaxCycles)
    /\ \A k \in 1..MaxCycles :
         (CycleFailed /\ cycle = k /\ CanReachNextInterval) ~> (cycle > k \/ intr)

\* a second cycle was started after one whose read had failed
C9_Witness ==
    /\ cycle = 2 /\ spc = "exec" /\ rstat = "failed"
    /\ runres = "running" /\ ~intr

\* C10 as stated: a KeyboardInterrupt raised while run is executing ends run
\* and leaves run as an exception.
C10_InterruptPropagated ==
    intr => spc = "returned" /\ runres = "raised"

\* C10, amended: a KeyboardInterrupt raised while run is polling, in read or
\* in a processor is not handled as a failure of the reader or of the
\* processor (execute re-raises it), no processor is called and no cycle is
\* started after it, and run ends; run catches it and returns 0, so it does
\* not leave run as an exception.
C10_InterruptEndsRunReturning0 ==
    /\ [](intr => /\ spc = "returned" /\ runres = "ret0"
                  /\ port = "closed" /\ rpc = "idle")
    /\ [](\A i \in 1..Len(calls) :
             calls[i].out = "kbd" =>
                 calls[i].handled = "reraise" /\ i = Len(calls) /\ intr)
    /\ [](rstat = "interrupted" => intr /\ calls = <<>>)
    /\ [][intr => UNCHANGED <<calls, cycle, nreads, rstat, rerr, spc, runres>>]_vars

\* the first processor was interrupted: the second was not called and run
\* has returned 0
C10_Witness ==
    /\ intr /\ Len(calls) = 1 /\ NProc >= 2
    /\ calls[1].out = "kbd"
    /\ spc = "returned" /\ runres = "ret0"

----------------------------------------------------------------------------
(* Cancellation *)

\* C11, as stated: run ends on an interrupt only at the top of the poll loop or
\* between cycles; when run has ended, the last call of read, if there was
\* one, had reached its own completion (DONE) or failure (FAILED).
C11_InterruptOnlyBetweenCycles ==
    runres = "ret0" => rstat \in {"none", "done", "failed"}

\* C11, amended: an interrupt takes effect wherever run is when it is raised,
\* in the middle of a handshake too; a handshake so interrupted is abandoned:
\* it neither returns a payload nor fails with an exception of its own, only
\* its finally clause runs (the port is closed), no processor is called, and
\* run ends returning 0.
C11_InterruptAbortsHandshake ==
    /\ spc # "returned" => ENABLED KbdInterrupt
    /\ rstat = "interrupted" =>
           /\ intr /\ spc = "returned" /\ runres = "ret0"
           /\ port = "closed"
           /\ rerr = "none" /\ rret = <<>> /\ calls = <<>>

\* run has ended on an interrupt raised after the start marker and one more
\* byte had been read
C11_Witness ==
    /\ rstat = "interrupted" /\ spc = "returned"
    /\ Len(rx) >= 2 /\ rx[1] = <<STX>> /\ rx[2] # <<>>
    /\ rpc = "idle"

----------------------------------------------------------------------------
(* The fixed delays of a call of read *)

\* number of delays the current call of read has performed
NumDelays == Cardinality({i \in 1..Len(ev) : ev[i] = "delay"})

\* the operations of a call up to the first read of a data byte
Handshake == <<"open", "w_hello", "delay", "readline", "w_ack", "delay">>

\* the operations of the current call are the handshake, or a part of it from
\* its beginning, followed by reads of single bytes only
HandshakeOrder ==
    \A i \in 1..Len(ev) :
        ev[i] = IF i <= Len(Handshake) THEN Handshake[i] ELSE "read"

\* C12, as stated: every call of read that has returned or failed has
\* performed exactly two delays.
C12_ExactlyTwoDelays ==
    rstat \in {"done", "failed"} => NumDelays = 2

\* C12, amended: a call performs at most two delays, the first immediately
\* after the request is written and before the identification is read, the
\* second immediately after the acknowledgement is written and before the
\* first data byte is read; a call that returns, or that fails after the
\* acknowledgement, has performed both; a call that fails on the
\* identification has performed the first only, and a call that cannot open
\* the port none.
C12_DelaysByOutcome ==
    /\ HandshakeOrder
    /\ Did("read") => NumDelays = 2
    /\ rstat = "done" => NumDelays = 2
    /\ rstat = "failed" =>
           NumDelays = CASE rerr = "open_failed" -> 0
                         [] rerr \in {"empty_id", "no_id", "id_short"} -> 1
                         [] OTHER -> 2

\* a call has returned a payload after the whole handshake and five reads
C12_Witness ==
    /\ rstat = "done" /\ rret # <<>>
    /\ NumDelays = 2
    /\ Len(ev) = Len(Handshake) + 5

----------------------------------------------------------------------------
(* MT174.datablock_to_dict and MT174.DATABLOCK_REGEX.  A string is a       *)
(* sequence of one-character strings.                                      *)

\* most lines of a payload handed to datablock_to_dict
MaxLines == 2

\* the characters str.split() splits on and \S does not match
Space == {" ", "\n", "\r", "\t"}
\* the characters \d matches
Digit == {"0", "1", "2", "3", "4", "5", "6", "7", "8", "9"}

RECURSIVE SplitFrom(_, _, _)
\* the items of s from position i on, `item` being the one begun before i
SplitFrom(s, i, item) ==
    IF i > Len(s) THEN (IF item = <<>> THEN <<>> ELSE <<item>>)
    ELSE IF s[i] \in Space
         THEN (IF item = <<>> THEN <<>> ELSE <<item>>) \o SplitFrom(s, i + 1, <<>>)
         ELSE SplitFrom(s, i + 1, Append(item, s[i]))

\* data.split(): the maximal runs of characters that are not whitespace
Split(s) == SplitFrom(s, 1, <<>>)

\* every character of s[i..j] matches \S
NonSpace(s, i, j) == \A x \in i..j : s[x] \notin Space
\* every character of s[i..j] matches \d
Digits(s, i, j) == \A x \in i..j : s[x] \in Digit
\* s has the character ch at position i
At(s, i, ch) == i \in 1..Len(s) /\ s[i] = ch

\* (?:\d-\d:)? : the lengths the optional class prefix can match
PrefixLens(s) ==
    IF Len(s) >= 4 /\ s[1] \in Digit /\ s[2] = "-" /\ s[3] \in Digit /\ s[4] = ":"
    THEN {4, 0}
    ELSE {0}
\* \S+\. from position o + 1: where the \S+ can end
FirstEnds(s, o) ==
    {a \in (o + 1)..(Len(s) - 1) : NonSpace(s, o + 1, a) /\ s[a + 1] = "."}
\* \S+\. after the first dot: where the \S+ can end
SecondEnds(s, a) ==
    {b \in (a + 2)..(Len(s) - 1) : NonSpace(s, a + 2, b) /\ s[b + 1] = "."}
\* \d+ after the second dot: where it can end
ThirdEnds(s, b) == {c \in (b + 2)..Len(s) : Digits(s, b + 2, c)}

\* a pattern whose optional suffix is any two-digit channel as well
SuffixEndsAnyChannel(s, c) ==
    {c} \cup (IF c + 4 <= Len(s)
                 /\ SubSeq(s, c + 1, c + 4) = <<"*", "2", "5", "5">>
              THEN {c + 4} ELSE {})
        \cup (IF c + 3 <= Len(s) /\ s[c + 1] = "*" /\ Digits(s, c + 2, c + 3)
              THEN {c + 3} ELSE {})

\* (?:\*255)? after group 1 ending at c: where the optional suffix can end
SuffixEnds(s, c) ==
    {c} \cup (IF c + 4 <= Len(s)
                 /\ SubSeq(s, c + 1, c + 4) = <<"*", "2", "5", "5">>
              THEN {c + 4} ELSE {})

\* a pattern with \((.*)\): the value may be empty
ValueEndsMaybeEmpty(s, k) ==
    IF At(s, k + 1, "(")
    THEN {e \in (k + 1)..(Len(s) - 1) :
             s[e + 1] = ")" /\ \A x \in (k + 2)..e : s[x] # "\n"}
    ELSE {}

\* \((.+)\) after position k: where group 2 can end
ValueEnds(s, k) ==
    IF At(s, k + 1, "(")
    THEN {e \in (k + 2)..(Len(s) - 1) :
             s[e + 1] = ")" /\ \A x \in (k + 2)..e : s[x] # "\n"}
    ELSE {}

\* every way DATABLOCK_REGEX matches at the beginning of s: <<length of the
\* prefix, ends of the three parts of group 1, end of the suffix, end of
\* group 2>>
Matches(s) ==
    UNION {UNION {UNION {UNION {UNION {
        {<<o, a, b, c, k, e>> : e \in ValueEnds(s, k)}
            : k \in SuffixEnds(s, c)}
            : c \in ThirdEnds(s, b)}
            : b \in SecondEnds(s, a)}
            : a \in FirstEnds(s, o)}
            : o \in PrefixLens(s)}

\* the matcher tries t before u: every quantifier of the pattern is greedy,
\* so the first place where they differ is longer in t
Preferred(t, u) ==
    \E i \in 1..Len(t) : t[i] > u[i] /\ \A j \in 1..(i - 1) : t[j] = u[j]

\* DATABLOCK_REGEX.match(s): << >> for None, else <<group(1), group(2)>>
Match(s) ==
    LET M == Matches(s) IN
    IF M = {} THEN <<>>
    ELSE LET t == CHOOSE t \in M : \A u \in M \ {t} : Preferred(t, u)
         IN  <<SubSeq(s, t[1] + 1, t[4]), SubSeq(s, t[5] + 2, t[6])>>

\* the keys of the dict d, a sequence of <<key, value>> in insertion order
Keys(d) == {d[i][1] : i \in 1..Len(d)}
\* d[key]
Get(d, key) == d[CHOOSE i \in 1..Len(d) : d[i][1] = key][2]

\* an assignment that keeps the value a key already has
DictSetFirstWins(d, key, value) ==
    IF key \in Keys(d) THEN d ELSE Append(d, <<key, value>>)

\* data_dict[key] = value
DictSet(d, key, value) ==
    IF key \in Keys(d)
    THEN [i \in 1..Len(d) |-> IF d[i][1] = key THEN <<key, value>> ELSE d[i]]
    ELSE Append(d, <<key, value>>)

\* data_dict = {}; for line in data.split()
ParseSplit ==
    /\ ppc = "split"
    /\ data_dict' = <<>>
    /\ plines' = Split(pdata)
    /\ ppc' = "loop"
    /\ UNCHANGED <<pdata, schedVars, rpc, port, readLocals, wireVars, readHist,
                   cycleHist, flipVars, waitVars>>

\* one turn of the for loop: match the line and, if it matches, set the entry
ParseLine ==
    /\ ppc = "loop" /\ plines # <<>>
    /\ LET match == Match(Head(plines)) IN
       data_dict' = IF match # <<>>
                    THEN DictSet(data_dict, match[1], match[2])
                    ELSE data_dict
    /\ plines' = Tail(plines)
    /\ UNCHANGED <<ppc, pdata, schedVars, rpc, port, readLocals, wireVars,
                   readHist, cycleHist, flipVars, waitVars>>

\* return data_dict
ParseReturn ==
    /\ ppc = "loop" /\ plines = <<>>
    /\ ppc' = "done"
    /\ UNCHANGED <<pdata, plines, data_dict, schedVars, rpc, port, readLocals,
                   wireVars, readHist, cycleHist, flipVars, waitVars>>

(* The payloads datablock_to_dict is applied to *)

\* the class prefixes, codes, channel suffixes and values of the lines
Classes == {<<>>, <<"0", "-", "0", ":">>}
Codes == {<<"C", ".", "5", "1", ".", "4">>}
Channels == {<<>>, <<"*", "2", "5", "5">>, <<"*", "0", "1">>}
Values == {<<>>, <<"0">>, <<"5", "*", "k">>}

\* the line of a field
FieldLine(f) == f.class \o f.code \o f.channel \o <<"(">> \o f.value \o <<")">>

\* 1-0:1.8.0*255(0692930.505*kWh)
SampleField ==
    [class |-> <<"1", "-", "0", ":">>,
     code |-> <<"1", ".", "8", ".", "0">>,
     channel |-> <<"*", "2", "5", "5">>,
     value |-> <<"0", "6", "9", "2", "9", "3", "0", ".", "5", "0", "5",
                 "*", "k", "W", "h">>]

\* 1.8.0(0)
PlainField ==
    [class |-> <<>>, code |-> <<"1", ".", "8", ".", "0">>,
     channel |-> <<>>, value |-> <<"0">>]

\* the fields a line can carry
Fields ==
    [class : Classes, code : Codes, channel : Channels, value : Values]
        \cup {SampleField, PlainField}

\* the lines of a payload: the fields, a line that is no field, and a line
\* with a blank in it
PayloadLines ==
    {FieldLine(f) : f \in Fields}
        \cup {<<"x">>, <<"x", " ", "1", ".", "8", ".", "0", "(", "0", ")">>}

RECURSIVE JoinLines(_)
\* the lines, each ended by a newline
JoinLines(ls) ==
    IF ls = <<>> THEN <<>> ELSE Head(ls) \o <<"\n">> \o JoinLines(Tail(ls))

Payloads == {JoinLines(ls) : ls \in SeqsUpTo(PayloadLines, MaxLines)}

\* FileLogger.process calls MT174.datablock_to_dict(data)
InitParse ==
    /\ spc = "dispatch" /\ now = 0 /\ start = 0 /\ ts = 0
    /\ idx = 1 /\ data = <<>> /\ runres = "running"
    /\ rpc = "idle" /\ port = "closed"
    /\ message = <<>> /\ datablock = <<>> /\ bcc = 0 /\ curr = <<>>
    /\ scripted = FALSE /\ script = <<>>
    /\ ev = <<>> /\ idline = <<>> /\ rx = <<>>
    /\ rstat = "done" /\ rerr = "none" /\ rret = <<>>
    /\ calls = <<>> /\ cycle = 1 /\ nreads = 1 /\ prevTs = 0
    /\ prevFailed = FALSE /\ intr = FALSE
    /\ phase = 0 /\ frame = <<>> /\ flip = <<0, 0>> /\ res1 = <<>>
    /\ due0 = TRUE /\ slept0 = FALSE
    /\ ppc = "split" /\ pdata \in Payloads /\ plines = <<>> /\ data_dict = <<>>

NextParse == ParseSplit \/ ParseLine \/ ParseReturn

SpecParse == InitParse /\ [][NextParse]_vars

\* the items of data, as <<first position, last position>>: the maximal runs
\* of characters that are not whitespace
Items(s) ==
    LET firsts == {i \in 1..Len(s) :
                      s[i] \notin Space /\ (i = 1 \/ s[i - 1] \in Space)}
        lasts == {j \in 1..Len(s) :
                     s[j] \notin Space /\ (j = Len(s) \/ s[j + 1] \in Space)}
    IN  {<<i, CHOOSE j \in lasts : j >= i /\ \A k \in lasts : k >= i => j <= k>> :
            i \in firsts}

\* the text of an item
Text(s, it) == SubSeq(s, it[1], it[2])

----------------------------------------------------------------------------
(* What datablock_to_dict returns *)

\* the item is the line of a field
IsField(t) == \E f \in Fields : FieldLine(f) = t
\* the field an item is the line of
FieldOf(t) == CHOOSE f \in Fields : FieldLine(f) = t

\* the fields whose lines the pattern takes: channel suffix *255 or none, and
\* a value that is not empty
Accepted(f) == f.channel \in {<<>>, <<"*", "2", "5", "5">>} /\ f.value # <<>>

\* the items of data that are lines of fields in the set F
FieldItems(F) ==
    {it \in Items(pdata) :
        IsField(Text(pdata, it)) /\ FieldOf(Text(pdata, it)) \in F}

\* no item of `among` that comes after `it` carries the same code
LastOf(it, among) ==
    \A it2 \in among :
        it2[1] > it[1] =>
            FieldOf(Text(pdata, it2)).code # FieldOf(Text(pdata, it)).code

\* 0-0:C.51.4*255() and 0-0:C.51.4*01()
EmptyLine255 ==
    FieldLine([class |-> <<"0", "-", "0", ":">>,
               code |-> <<"C", ".", "5", "1", ".", "4">>,
               channel |-> <<"*", "2", "5", "5">>, value |-> <<>>])
EmptyLine01 ==
    FieldLine([class |-> <<"0", "-", "0", ":">>,
               code |-> <<"C", ".", "5", "1", ".", "4">>,
               channel |-> <<"*", "0", "1">>, value |-> <<>>])

\* C13, as stated: applied to the two lines 0-0:C.51.4*255() and
\* 0-0:C.51.4*01(), datablock_to_dict parses both and maps the code C.51.4
\* to the empty string.
C13_EmptyValueLinesParsed ==
    ppc = "done" /\ pdata = JoinLines(<<EmptyLine255, EmptyLine01>>) =>
        data_dict = <<<<(<<"C", ".", "5", "1", ".", "4">>), <<>>>>>>

\* C13, amended: datablock_to_dict skips a line whose parentheses are empty,
\* so it never maps a code to the empty string; applied to a payload made of
\* the lines 0-0:C.51.4*255() and 0-0:C.51.4*01() it returns the empty
\* mapping.
C13_EmptyValueLinesSkipped ==
    ppc = "done" =>
        /\ \A i \in 1..Len(data_dict) : data_dict[i][2] # <<>>
        /\ (\A it \in Items(pdata) :
               Text(pdata, it) \in {EmptyLine255, EmptyLine01}) =>
                  data_dict = <<>>

\* datablock_to_dict has returned the empty mapping for the two lines
C13_Witness ==
    /\ ppc = "done"
    /\ pdata = JoinLines(<<EmptyLine255, EmptyLine01>>)
    /\ data_dict = <<>>

\* C14, as stated: every line of a field with a value, with or without the
\* class prefix and with the channel suffix *255, a two-digit suffix or none,
\* yields the entry code -> value (of the last such line, if several carry the
\* same code).
C14_FieldParsedAnyChannel ==
    ppc = "done" =>
        LET with == FieldItems({f \in Fields : f.value # <<>>}) IN
        \A it \in with :
            LET f == FieldOf(Text(pdata, it)) IN
            /\ f.code \in Keys(data_dict)
            /\ LastOf(it, with) => Get(data_dict, f.code) = f.value

\* C14, amended: every line of a field with or without the class prefix, with
\* the channel suffix *255 or none, and with a value that is not empty,
\* yields the entry code -> value (of the last such line, if several carry the
\* same code), the suffix *255 being ignored; a line with any other channel
\* suffix, such as *01, yields nothing; in particular
\* 1-0:1.8.0*255(0692930.505*kWh) yields 1.8.0 -> 0692930.505*kWh.
C14_FieldParsedUnlessOtherChannel ==
    ppc = "done" =>
        LET taken == FieldItems({f \in Fields : Accepted(f)})
            other == FieldItems({f \in Fields : ~Accepted(f)})
        IN
        /\ \A it \in taken :
               LET f == FieldOf(Text(pdata, it)) IN
               /\ f.code \in Keys(data_dict)
               /\ LastOf(it, taken) => Get(data_dict, f.code) = f.value
        /\ \A it \in other :
               LET f == FieldOf(Text(pdata, it)) IN
               (\A it2 \in taken : FieldOf(Text(pdata, it2)).code # f.code)
                   => f.code \notin Keys(data_dict)
        /\ pdata = JoinLines(<<FieldLine(SampleField)>>) =>
               data_dict = <<<<SampleField.code, SampleField.value>>>>

\* datablock_to_dict has returned the entry of 1-0:1.8.0*255(0692930.505*kWh)
\* alone for a payload that also holds a line with a value and the suffix *01
C14_Witness ==
    /\ ppc = "done"
    /\ \E f \in Fields :
        /\ f.channel = <<"*", "0", "1">> /\ f.value # <<>>
        /\ f.class # <<>>
        /\ pdata = JoinLines(<<FieldLine(f), FieldLine(SampleField)>>)
    /\ data_dict = <<<<SampleField.code, SampleField.value>>>>

\* the items of data that match the pattern, each with what it matches:
\* <<first position, group(1), group(2)>>
MatchingItems ==
    {m \in {<<it[1]>> \o Match(Text(pdata, it)) : it \in Items(pdata)} :
        Len(m) > 1}

----------------------------------------------------------------------------
(* Reads of the block that return nothing, or that never end *)

\* C16, as stated: once the start marker has been read, a later read of the
\* call that returns zero length (in the body, in the tail, or in the place
\* of the check character) makes read fail with the exception that signals
\* missing data, and return nothing.
C16_EmptyReadAfterStxIncomplete ==
    rx # <<>> /\ rx[1] = <<STX>> /\ Last(rx) = <<>> =>
        rstat = "failed" /\ rerr = "empty_data" /\ rret = <<>>

\* C17, as stated: every call of read ends, whatever the meter sends, as long
\* as every single read returns.
C17_ReadTerminates ==
    (rstat = "running") ~> (rstat # "running")

\* C18: when read returns after a start marker, what it returns is the bytes
\* received after the start marker and before the first '!', in order; the
\* '!', the bytes after it, the end marker and the check character are not
\* part of it; every byte after the start marker through the end marker, and
\* not the check character, is accumulated into the checksum.
C18_PayloadIsBodyBeforeBang ==
    rstat = "done" /\ rx # <<>> /\ rx[1] = <<STX>> =>
        /\ BangPos(rx) # 0
        /\ rret = Bytes(SubSeq(rx, 2, BangPos(rx) - 1))
        /\ \A i \in 1..Len(rret) : rret[i] # BANG
        /\ bcc = FrameXor(rx)

\* read has returned a body of two different bytes
C18_Witness ==
    /\ rstat = "done" /\ rx # <<>> /\ rx[1] = <<STX>>
    /\ Len(rret) = 2 /\ rret[1] # rret[2]
    /\ Len(rx) = Len(rret) + 4

----------------------------------------------------------------------------
(* The timing of the cycles *)

\* C19: a cycle is started only from the poll loop and only when at least
\* the interval has elapsed since the baseline; the time taken then is the
\* new baseline and the timestamp every processor of the cycle is called
\* with, and the baseline changes at no other moment (so the time a cycle
\* takes counts towards the next interval); the timestamps of two consecutive
\* cycles differ by at least the interval; when a cycle is started, the read
\* of the cycle before has ended and, if it returned, every processor has
\* been called.
C19_CycleTiming ==
    /\ [](start = ts)
    /\ [](\A i \in 1..Len(calls) : calls[i].ts = ts)
    /\ [](cycle >= 2 => ts >= prevTs + Interval)
    /\ [][now' >= now]_vars
    /\ [][start' # start => cycle' = cycle + 1]_vars
    /\ [][cycle' # cycle =>
            /\ cycle' = cycle + 1
            /\ spc = "poll" /\ (now - start) >= Interval
            /\ start' = now' /\ ts' = now'
            /\ spc' = "exec" /\ calls' = <<>> /\ nreads' = 0
            /\ rstat # "running"
            /\ rstat = "done" => Len(calls) = NProc]_vars

\* the second cycle, started exactly one interval after the first although
\* the first took time, is calling its processors with its own timestamp
C19_Witness ==
    /\ cycle = 2 /\ spc = "dispatch" /\ Len(calls) = 1
    /\ calls[1].ts = ts /\ ts = start
    /\ ts = prevTs + Interval
    /\ now > ts

\* C20: the baseline starts at 0, so when the clock is at least the interval
\* when run is called, run does not sleep: the first cycle is the only step it
\* can take and it is started with no poll sleep before it; the second and
\* later cycles come at least one interval after the one before.
C20_FirstCycleImmediate ==
    /\ due0 /\ cycle = 0 /\ spc = "poll" =>
           ~slept0 /\ ENABLED PollFire /\ ~ENABLED PollSleep
    /\ due0 /\ cycle >= 1 => ~slept0
    /\ due0 /\ cycle = 1 => ts <= Interval + 1
    /\ cycle >= 2 => ts - prevTs >= Interval

\* the first cycle has been started at once, and run is in its read
C20_Witness ==
    /\ due0 /\ cycle = 1 /\ ~slept0
    /\ spc = "read" /\ rpc = "r_id"
    /\ ts \in {Interval, Interval + 1}

====
